---- MODULE Spec2Model ----
(***************************************************************************)
(* Decentralized Smart Traffic IoT System: the Streamlit session of        *)
(* app.py over the ledger, cipher and decision engine of backend.py.       *)
(*                                                                         *)
(* Numbers.  An event's speed and limit and a toll are integers in         *)
(* hundredths (12000 is 120.00); a dataset row's speed and limit, not yet  *)
(* rounded, and a congestion are integers in thousandths (600 is 0.6).     *)
(* Python's None is the string "None" where the slot holds a string and    *)
(* the record NoneObj where the slot holds a dict.                         *)
(***************************************************************************)
EXTENDS Integers, Sequences, FiniteSets, TLC

VARIABLES
    chain,             \* st.session_state.bc.chain : list of Block
    heap,              \* the list objects of the ledger; heap[POOL] is bc.current_tx
    rejected_cases,    \* st.session_state.rejected_cases
    cipher,            \* st.session_state.cipher (its key)
    current_event,     \* st.session_state.current_event
    current_decision,  \* st.session_state.current_decision
    driver_response,   \* st.session_state.driver_response
    now,               \* the clock read by datetime.utcnow()
    last,              \* the operation of the last run and the message it showed
    placed,            \* history: the stores the current decision was saved to
    calls              \* the ledger calls in progress: each caller's position and locals

vars == <<chain, heap, rejected_cases, cipher, current_event, current_decision, driver_response, now, last, placed, calls>>

\* ------------------------------------------------------------------ bounds

\* Transactions built (encrypt calls) in one run of the model.
MaxSaves == 2

\* Largest reading of the clock.
MaxTime == 1

\* Blocks mined through the bare ledger interface in one run of the model.
MaxBlocks == 2

\* ------------------------------------------------------------------ values

None == "None"

NoneObj == [none |-> TRUE]

\* The values os.urandom(12) is drawn from.
Nonces == {"n1", "n2"}

\* The rows of us_traffic_data.csv: one at the speed limit and one over it
\* (speeds in thousandths of km/h, times in minutes of the day).
df == <<
    [plate |-> "TX-LMN4321", phone |-> "+1-214-555-0142", email |-> "txlmn4321@outlook.com", entry_point |-> "Queens Blvd", exit_point |-> "I-95 Exit 15", entry_time |-> 800, exit_time |-> 845, speed_kmph |-> 96560, speed_limit_kmph |-> 96560],
    [plate |-> "CA-XYZ9876", phone |-> "+1-213-555-0199", email |-> "caxyz9876@yahoo.com", entry_point |-> "Times Square", exit_point |-> "Lincoln Tunnel", entry_time |-> 700, exit_time |-> 712, speed_kmph |-> 136790, speed_limit_kmph |-> 112650] >>

Max(a, b) == IF a >= b THEN a ELSE b

\* round(n / d) to the nearest integer, ties to even, for n >= 0 and d > 0.
RoundDiv(n, d) == LET q == n \div d  r == n % d IN IF 2 * r < d THEN q ELSE IF 2 * r > d THEN q + 1 ELSE IF q % 2 = 0 THEN q ELSE q + 1

\* ------------------------------------------------------------------ cipher

DemoKey == "00112233445566778899AABBCCDDEEFF00112233445566778899AABBCCDDEEFF"

\* The values of the environment variable POLICE_KEY_HEX: unset, or a 32-byte key.
PoliceKeyEnv == {None, "A0A1A2A3A4A5A6A7A8A9AAABACADAEAFB0B1B2B3B4B5B6B7B8B9BABBBCBDBEBF"}

\* AESCipher.__init__: the key of the environment, or the demo key without one.
AESCipherInit(police_key_hex) == [key |-> IF police_key_hex # None THEN police_key_hex ELSE DemoKey]

\* json.dumps(data).encode("utf-8")
JsonDumps(data) == [json |-> data]

\* json.loads(pt.decode("utf-8"))
JsonLoads(pt) == pt.json

\* The GCM authentication tag, forgery-free: the tag names what it was made over.
GcmTag(key, nonce, plaintext) == [key |-> key, nonce |-> nonce, pt |-> plaintext]

\* AESGCM(key).encrypt(nonce, plaintext, None): the plaintext under the
\* keystream of key and nonce, followed by the tag over all three.
AESGCMEncrypt(key, nonce, plaintext) == [gcm_key |-> key, gcm_nonce |-> nonce, gcm_pt |-> plaintext, gcm_tag |-> GcmTag(key, nonce, plaintext)]

\* bytes.hex()
ToHex(b) == [hex |-> b]

\* bytes.fromhex()
FromHex(h) == h.hex

\* Mutant of Encrypt: the nonce returned is not the one encrypted under.
EncryptReturnsOtherNonce(c, nonce, data) == [nonce |-> ToHex("n1"), ciphertext |-> ToHex(AESGCMEncrypt(c.key, nonce, JsonDumps(data)))]

\* AESCipher.encrypt with the nonce os.urandom returned.
Encrypt(c, nonce, data) == [nonce |-> ToHex(nonce), ciphertext |-> ToHex(AESGCMEncrypt(c.key, nonce, JsonDumps(data)))]

\* AESGCM(key).decrypt(nonce, ct, None): the plaintext when the tag verifies
\* under this key and nonce over the bytes received, InvalidTag otherwise.
AESGCMDecrypt(key, nonce, ct) == IF ct.gcm_key = key /\ ct.gcm_nonce = nonce /\ ct.gcm_tag = GcmTag(key, nonce, ct.gcm_pt) THEN [ok |-> TRUE, pt |-> ct.gcm_pt] ELSE [ok |-> FALSE, pt |-> JsonDumps(NoneObj)]

\* Mutant of Decrypt: a failed verification is swallowed and whatever bytes
\* came out are parsed and returned.
DecryptSwallowsFailure(c, nonce_hex, ciphertext_hex) == [ok |-> TRUE, data |-> JsonLoads(FromHex(ciphertext_hex).gcm_pt)]

\* AESCipher.decrypt
Decrypt(c, nonce_hex, ciphertext_hex) == LET r == AESGCMDecrypt(c.key, FromHex(nonce_hex), FromHex(ciphertext_hex)) IN IF r.ok THEN [ok |-> TRUE, data |-> JsonLoads(r.pt)] ELSE [ok |-> FALSE, data |-> NoneObj]

\* ------------------------------------------------------------------ decision engine

\* toll(event): round(1.0 + congestion * 2.0, 2), in hundredths.
toll(event) == RoundDiv(1000 + event.congestion * 2, 10)

\* Mutant of route: the band boundaries go to the lower band.
route_boundary_low(event) == IF event.congestion <= 400 THEN "FASTEST" ELSE IF event.congestion <= 800 THEN "ALTERNATE_1" ELSE "ALTERNATE_2"

\* route(event)
route(event) == IF event.congestion < 400 THEN "FASTEST" ELSE IF event.congestion < 800 THEN "ALTERNATE_1" ELSE "ALTERNATE_2"

\* Mutant of Congestion: the min(1.0, ...) is missing.
CongestionNoCap(speed, limit) == LET d == Max(1000, limit) IN IF 10 * speed <= d THEN 100 ELSE 10 * RoundDiv(100 * speed, d)

\* The congestion estimate of build_event_from_row:
\* round(min(1.0, max(0.1, speed / max(1.0, limit))), 2), in thousandths,
\* of the row's speed and limit in thousandths.
Congestion(speed, limit) == LET d == Max(1000, limit) IN IF speed >= d THEN 1000 ELSE IF 10 * speed <= d THEN 100 ELSE 10 * RoundDiv(100 * speed, d)

\* build_event_from_row(row)
build_event_from_row(row) == [vehicle |-> row.plate, phone |-> row.phone, email |-> row.email, entry_point |-> row.entry_point, exit_point |-> row.exit_point, entry_time |-> row.entry_time, exit_time |-> row.exit_time, speed |-> RoundDiv(row.speed_kmph, 10), speed_limit |-> RoundDiv(row.speed_limit_kmph, 10), congestion |-> Congestion(row.speed_kmph, row.speed_limit_kmph), travel_time_min |-> row.exit_time - row.entry_time]

\* evaluate_decision(event)
evaluate_decision(event) == LET overspeed == event.speed > event.speed_limit  decision_correct == ~overspeed IN [toll |-> toll(event), route |-> route(event), overspeed |-> overspeed, decision_correct |-> decision_correct, comment |-> IF decision_correct THEN "Safe driving, decision OK." ELSE "Overspeed detected. Driver must confirm or reject guidance."]

\* ------------------------------------------------------------------ ledger

\* The list object bc.current_tx, created once by Blockchain.__init__.
POOL == 1

\* prev_hash of the genesis block: the string "0".
Sentinel == [hex |-> "0"]

\* data of the genesis block: the dict {"msg": "Genesis Block"}.
GenesisData == [msg |-> "Genesis Block"]

\* hashlib.sha256(b).hexdigest(), collision-free: the digest names its input.
Sha256(b) == [sha256 |-> b]

\* What json.dumps writes for a block's data: the dict itself, or the present
\* contents of the list object it refers to.
DataJson(data, h) == IF "ref" \in DOMAIN data THEN [list |-> h[data.ref]] ELSE data

\* json.dumps(self.__dict__, sort_keys=True, default=str): every attribute
\* the object has at the moment of the call.
DumpsDict(self, h) == [k \in DOMAIN self |-> IF k = "data" THEN DataJson(self.data, h) ELSE self[k]]

\* Block.compute_hash
compute_hash(self, h) == Sha256(DumpsDict(self, h))

\* Block.__init__: hash is computed while the object has four attributes.
Block(index, timestamp, data, prev_hash, h) == LET self == [index |-> index, timestamp |-> timestamp, data |-> data, prev_hash |-> prev_hash] IN [index |-> index, timestamp |-> timestamp, data |-> data, prev_hash |-> prev_hash, hash |-> compute_hash(self, h)]

\* Mutant of ListCopy: no copy is taken, the block's data is the pool's own list.
ListCopyAliased(h, ref) == [heap |-> h, ref |-> ref]

\* list.copy(): a new list object with the same items.
ListCopy(h, ref) == [heap |-> Append(h, h[ref]), ref |-> Len(h) + 1]

\* Mutant of ListClear: the list is left as it is.
ListClearNothing(h, ref) == h

\* list.clear(): the same list object, emptied.
ListClear(h, ref) == [h EXCEPT ![ref] = <<>>]

\* list.append(x)
ListAppend(h, ref, x) == [h EXCEPT ![ref] = Append(h[ref], x)]

\* Blockchain.create_genesis
create_genesis(t, h) == <<Block(0, t, GenesisData, Sentinel, h)>>

\* Blockchain.add_tx
add_tx(h, tx) == ListAppend(h, POOL, tx)

\* Mutant of mine: the pool is cleared before its copy is taken.
mine_clears_first(c, h, t) == LET prev == c[Len(c)]  cp == ListCopy(ListClear(h, POOL), POOL)  new_block == Block(prev.index + 1, t, [ref |-> cp.ref], prev.hash, cp.heap) IN [chain |-> Append(c, new_block), heap |-> cp.heap, block |-> new_block]

\* Mutant of mine: the new block links to the first block, not the last.
mine_links_first(c, h, t) == LET prev == c[1]  last_blk == c[Len(c)]  cp == ListCopy(h, POOL)  new_block == Block(last_blk.index + 1, t, [ref |-> cp.ref], prev.hash, cp.heap) IN [chain |-> Append(c, new_block), heap |-> ListClear(cp.heap, POOL), block |-> new_block]

\* Blockchain.mine at clock reading t: the new chain and heap.
mine(c, h, t) == LET prev == c[Len(c)]  cp == ListCopy(h, POOL)  new_block == Block(prev.index + 1, t, [ref |-> cp.ref], prev.hash, cp.heap) IN [chain |-> Append(c, new_block), heap |-> ListClear(cp.heap, POOL), block |-> new_block]

\* bc.current_tx, as a sequence
Pool == heap[POOL]

\* The transactions of block b (none for the genesis marker).
BlockTxs(b) == IF "ref" \in DOMAIN b.data THEN heap[b.data.ref] ELSE <<>>

\* ------------------------------------------------------------------ session

RECURSIVE ChainTxCount(_)
\* The number of transactions in the first k blocks of the chain.
ChainTxCount(k) == IF k = 0 THEN 0 ELSE Len(BlockTxs(chain[k])) + ChainTxCount(k - 1)

\* The number of transactions held anywhere: blocks, pool and rejected list.
Persisted == ChainTxCount(Len(chain)) + Len(Pool) + Len(rejected_cases)

\* The callers that may use one ledger at the same time.
Callers == {"a", "b"}

\* A caller with no ledger call in progress.
Idle == [pc |-> "idle", prev |-> NoneObj, new_block |-> NoneObj]

\* The session state after the first run of the script, before any click.
Init ==
    /\ heap = << <<>> >>
    /\ chain = create_genesis(0, heap)
    /\ rejected_cases = <<>>
    /\ cipher \in {AESCipherInit(k) : k \in PoliceKeyEnv}
    /\ current_event = NoneObj
    /\ current_decision = NoneObj
    /\ driver_response = None
    /\ now = 0
    /\ last = [op |-> "init", out |-> None]
    /\ placed = <<>>
    /\ calls = [c \in Callers |-> Idle]

\* Mutant of DriverResponseStep: auto-approval without looking at overspeed.
DriverResponseStepAlwaysAuto(dec, resp, button) == IF dec = NoneObj THEN resp ELSE "AUTO_SAFE"

\* Step 3 of the script, run on every rerun: the response after it, given
\* which of the two driver buttons (if any) was clicked.
DriverResponseStep(dec, resp, button) == IF dec = NoneObj THEN resp ELSE IF ~dec.overspeed THEN "AUTO_SAFE" ELSE IF button = "confirm" THEN "CONFIRMED" ELSE IF button = "reject" THEN "REJECTED" ELSE resp

\* The two driver buttons are on the page only under an overspeed decision.
DriverButtonsRendered == current_decision # NoneObj /\ current_decision.overspeed

\* The payload the save handler encrypts.
Payload(ev, dec, resp) == [event |-> ev, decision |-> dec, driver_response |-> resp]

\* The transaction the save handler builds around the encrypted payload.
BuildTx(c, nonce, ev, dec, resp) == LET enc == Encrypt(c, nonce, Payload(ev, dec, resp)) IN [nonce |-> enc.nonce, ciphertext |-> enc.ciphertext, driver_response |-> resp, vehicle |-> IF ev # NoneObj THEN ev.vehicle ELSE None, exit_point |-> IF ev # NoneObj THEN ev.exit_point ELSE None]

\* Mutant of Dispatch: every transaction goes to the pending pool.
DispatchAllToLedger(tx, h, rej) == [heap |-> add_tx(h, tx), rejected |-> rej, store |-> "ledger", out |-> "Transaction added to pending blockchain block!"]

\* Mutant of Dispatch: the else is missing, a rejected transaction is stored
\* in the rejected list and then in the pool as well.
DispatchFallsThrough(tx, h, rej) == [heap |-> add_tx(h, tx), rejected |-> IF tx.driver_response = "REJECTED" THEN Append(rej, tx) ELSE rej, store |-> "ledger", out |-> "Transaction added to pending blockchain block!"]

\* Mutant of Dispatch: a rejected transaction is inserted at the head of the
\* rejected list.
DispatchPrepends(tx, h, rej) == IF tx.driver_response = "REJECTED" THEN [heap |-> h, rejected |-> <<tx>> \o rej, store |-> "quarantine", out |-> "Rejected guidance stored ONLY in 'Rejected Guidance' tab (not on blockchain)."] ELSE [heap |-> add_tx(h, tx), rejected |-> rej, store |-> "ledger", out |-> "Transaction added to pending blockchain block!"]

\* The save handler's placement of tx: the rejected list or the pending pool.
Dispatch(tx, h, rej) == IF tx.driver_response = "REJECTED" THEN [heap |-> h, rejected |-> Append(rej, tx), store |-> "quarantine", out |-> "Rejected guidance stored ONLY in 'Rejected Guidance' tab (not on blockchain)."] ELSE [heap |-> add_tx(h, tx), rejected |-> rej, store |-> "ledger", out |-> "Transaction added to pending blockchain block!"]

\* Mutant of LoadIoTEvent: the decision and the response of the previous event
\* are kept.
LoadIoTEventKeepsDecision(idx) ==
    /\ current_event' = build_event_from_row(df[idx])
    /\ driver_response' = DriverResponseStep(current_decision, driver_response, "load")
    /\ placed' = <<>>
    /\ last' = [op |-> "load", out |-> "IoT event loaded!"]
    /\ UNCHANGED <<chain, heap, rejected_cases, cipher, current_decision, now, calls>>

\* Click on "Load IoT Event" with the slider at row idx.
LoadIoTEvent(idx) ==
    /\ current_event' = build_event_from_row(df[idx])
    /\ current_decision' = NoneObj
    /\ driver_response' = DriverResponseStep(NoneObj, None, "load")
    /\ placed' = <<>>
    /\ last' = [op |-> "load", out |-> "IoT event loaded!"]
    /\ UNCHANGED <<chain, heap, rejected_cases, cipher, now, calls>>

\* Click on "Decision Engine".
DecisionEngine ==
    /\ IF current_event = NoneObj
       THEN /\ driver_response' = DriverResponseStep(current_decision, driver_response, "decide")
            /\ last' = [op |-> "decide", out |-> "Load an IoT event first!"]
            /\ UNCHANGED <<current_decision, placed>>
       ELSE /\ current_decision' = evaluate_decision(current_event)
            /\ driver_response' = DriverResponseStep(current_decision', None, "decide")
            /\ placed' = <<>>
            /\ last' = [op |-> "decide", out |-> "Decision generated!"]
    /\ UNCHANGED <<chain, heap, rejected_cases, cipher, current_event, now, calls>>

\* Click on "Confirm Guidance".
ConfirmGuidance ==
    /\ DriverButtonsRendered
    /\ driver_response' = DriverResponseStep(current_decision, driver_response, "confirm")
    /\ last' = [op |-> "confirm", out |-> "Driver CONFIRMED guidance"]
    /\ UNCHANGED <<chain, heap, rejected_cases, cipher, current_event, current_decision, now, placed, calls>>

\* Click on "Reject Guidance".
RejectGuidance ==
    /\ DriverButtonsRendered
    /\ driver_response' = DriverResponseStep(current_decision, driver_response, "reject")
    /\ last' = [op |-> "reject", out |-> "Driver REJECTED guidance"]
    /\ UNCHANGED <<chain, heap, rejected_cases, cipher, current_event, current_decision, now, placed, calls>>

\* Mutant of SaveTransaction: the check of the driver response is missing.
SaveTransactionUnguarded(nonce) ==
    /\ driver_response' = DriverResponseStep(current_decision, driver_response, "save")
    /\ Persisted < MaxSaves
    /\ LET tx == BuildTx(cipher, nonce, current_event, current_decision, driver_response')
           d == Dispatch(tx, heap, rejected_cases)
       IN /\ heap' = d.heap
          /\ rejected_cases' = d.rejected
          /\ placed' = Append(placed, d.store)
          /\ last' = [op |-> "save", out |-> d.out]
    /\ UNCHANGED <<chain, cipher, current_event, current_decision, now, calls>>

\* Click on "Encrypt & Save Transaction"; os.urandom returns nonce.
SaveTransaction(nonce) ==
    /\ driver_response' = DriverResponseStep(current_decision, driver_response, "save")
    /\ IF driver_response' = None
       THEN /\ last' = [op |-> "save", out |-> "Get driver confirmation/rejection first!"]
            /\ UNCHANGED <<heap, rejected_cases, placed>>
       ELSE /\ Persisted < MaxSaves
            /\ LET tx == BuildTx(cipher, nonce, current_event, current_decision, driver_response')
                   d == Dispatch(tx, heap, rejected_cases)
               IN /\ heap' = d.heap
                  /\ rejected_cases' = d.rejected
                  /\ placed' = Append(placed, d.store)
                  /\ last' = [op |-> "save", out |-> d.out]
    /\ UNCHANGED <<chain, cipher, current_event, current_decision, now, calls>>

\* Click on "Mine Block"; datetime.utcnow() reads t.
MineBlock(t) ==
    /\ driver_response' = DriverResponseStep(current_decision, driver_response, "mine")
    /\ IF Pool = <<>>
       THEN /\ now' = now
            /\ last' = [op |-> "mine", out |-> "No pending transactions to mine!"]
            /\ UNCHANGED <<chain, heap>>
       ELSE /\ LET m == mine(chain, heap, t)
               IN /\ chain' = m.chain
                  /\ heap' = m.heap
            /\ now' = t
            /\ last' = [op |-> "mine", out |-> "Block successfully mined!"]
    /\ UNCHANGED <<rejected_cases, cipher, current_event, current_decision, placed, calls>>

Next ==
    \/ \E idx \in 1..Len(df) : LoadIoTEvent(idx)
    \/ DecisionEngine
    \/ ConfirmGuidance
    \/ RejectGuidance
    \/ \E nonce \in Nonces : SaveTransaction(nonce)
    \/ \E t \in now..MaxTime : MineBlock(t)

Spec == Init /\ [][Next]_vars

\* ------------------------------------------------------------------ the ledger called directly

\* The driver responses a transaction can carry.
Responses == {"AUTO_SAFE", "CONFIRMED", "REJECTED"}

\* Transactions a caller of the ledger can hand to add_tx: any row's event and
\* decision, under any response.
ApiTxs == {BuildTx(cipher, "n1", build_event_from_row(df[i]), evaluate_decision(build_event_from_row(df[i])), r) : i \in 1..Len(df), r \in Responses}

\* A caller invokes bc.add_tx(tx).
CallAddTx(tx) ==
    /\ Persisted < MaxSaves
    /\ heap' = add_tx(heap, tx)
    /\ last' = [op |-> "add_tx", arg |-> tx, out |-> "returned"]
    /\ UNCHANGED <<chain, rejected_cases, cipher, current_event, current_decision, driver_response, now, placed, calls>>

\* A caller invokes bc.mine(); datetime.utcnow() reads t.
CallMine(t) ==
    /\ Len(chain) <= MaxBlocks
    /\ LET m == mine(chain, heap, t)
       IN /\ chain' = m.chain
          /\ heap' = m.heap
    /\ now' = t
    /\ last' = [op |-> "mine", out |-> "returned"]
    /\ UNCHANGED <<rejected_cases, cipher, current_event, current_decision, driver_response, placed, calls>>

NextLedger ==
    \/ \E tx \in ApiTxs : CallAddTx(tx)
    \/ \E t \in now..MaxTime : CallMine(t)

SpecLedger == Init /\ [][NextLedger]_vars

\* ------------------------------------------------------------------ the ledger called by several callers

\* The mine() calls that have read the last block and not yet returned.
MinesInProgress == Cardinality({c \in Callers : calls[c].pc # "idle"})

\* The transactions the concurrent callers add: one per row of the dataset.
ConcTxs == {tx \in ApiTxs : tx.driver_response = "CONFIRMED"}

\* Caller c runs bc.add_tx(tx): one statement.
ConcAddTx(c, tx) ==
    /\ calls[c].pc = "idle"
    /\ Persisted < MaxSaves
    /\ heap' = add_tx(heap, tx)
    /\ last' = [op |-> "add_tx", arg |-> tx, out |-> "returned"]
    /\ UNCHANGED <<chain, rejected_cases, cipher, current_event, current_decision, driver_response, now, placed, calls>>

\* Caller c enters bc.mine() and runs prev = self.chain[-1].
ConcMineRead(c) ==
    /\ calls[c].pc = "idle"
    /\ Len(chain) + MinesInProgress <= MaxBlocks
    /\ calls' = [calls EXCEPT ![c] = [pc |-> "build", prev |-> chain[Len(chain)], new_block |-> NoneObj]]
    /\ UNCHANGED <<chain, heap, rejected_cases, cipher, current_event, current_decision, driver_response, now, last, placed>>

\* Caller c runs new_block = Block(...): the clock is read, the pool copied
\* and the hash computed.
ConcMineBuild(c, t) ==
    /\ calls[c].pc = "build"
    /\ LET prev == calls[c].prev
           cp == ListCopy(heap, POOL)
           new_block == Block(prev.index + 1, t, [ref |-> cp.ref], prev.hash, cp.heap)
       IN /\ heap' = cp.heap
          /\ calls' = [calls EXCEPT ![c] = [pc |-> "append", prev |-> prev, new_block |-> new_block]]
    /\ now' = t
    /\ UNCHANGED <<chain, rejected_cases, cipher, current_event, current_decision, driver_response, last, placed>>

\* Caller c runs self.chain.append(new_block).
ConcMineAppend(c) ==
    /\ calls[c].pc = "append"
    /\ chain' = Append(chain, calls[c].new_block)
    /\ calls' = [calls EXCEPT ![c].pc = "clear"]
    /\ UNCHANGED <<heap, rejected_cases, cipher, current_event, current_decision, driver_response, now, last, placed>>

\* Caller c runs self.current_tx.clear() and returns the block.
ConcMineClear(c) ==
    /\ calls[c].pc = "clear"
    /\ heap' = ListClear(heap, POOL)
    /\ calls' = [calls EXCEPT ![c] = Idle]
    /\ last' = [op |-> "mine", out |-> "returned"]
    /\ UNCHANGED <<chain, rejected_cases, cipher, current_event, current_decision, driver_response, now, placed>>

NextConc ==
    \/ \E c \in Callers : \E tx \in ConcTxs : ConcAddTx(c, tx)
    \/ \E c \in Callers : ConcMineRead(c)
    \/ \E c \in Callers : \E t \in now..MaxTime : ConcMineBuild(c, t)
    \/ \E c \in Callers : ConcMineAppend(c)
    \/ \E c \in Callers : ConcMineClear(c)

SpecConc == Init /\ [][NextConc]_vars

\* ------------------------------------------------------------------ the decision engine called directly

\* Speeds around the limit, in hundredths of km/h.
EvalSpeeds == {9999, 10000, 10001, 12000}

\* Speed limits, in hundredths of km/h.
EvalLimits == {10000, 12000}

\* Congestion values on and around the band boundaries, in thousandths.
EvalCongestions == {0, 333, 399, 400, 401, 600, 799, 800, 801, 1000}

\* The events evaluate_decision is given: any speed, limit and congestion.
EvalEvents == {[build_event_from_row(df[1]) EXCEPT !.speed = s, !.speed_limit = l, !.congestion = g] : s \in EvalSpeeds, l \in EvalLimits, g \in EvalCongestions}

\* A session that holds an event and no decision yet.
InitEval ==
    /\ heap = << <<>> >>
    /\ chain = create_genesis(0, heap)
    /\ rejected_cases = <<>>
    /\ cipher \in {AESCipherInit(k) : k \in PoliceKeyEnv}
    /\ current_event \in EvalEvents
    /\ current_decision = NoneObj
    /\ driver_response = None
    /\ now = 0
    /\ last = [op |-> "init", out |-> None]
    /\ placed = <<>>
    /\ calls = [c \in Callers |-> Idle]

\* evaluate_decision is called on the event.
CallEvaluate ==
    /\ current_decision' = evaluate_decision(current_event)
    /\ last' = [op |-> "evaluate", out |-> "returned"]
    /\ UNCHANGED <<chain, heap, rejected_cases, cipher, current_event, driver_response, now, placed, calls>>

\* Another event arrives.
NextEvent(e) ==
    /\ current_event' = e
    /\ current_decision' = NoneObj
    /\ last' = [op |-> "event", out |-> None]
    /\ UNCHANGED <<chain, heap, rejected_cases, cipher, driver_response, now, placed, calls>>

NextEval ==
    \/ CallEvaluate
    \/ \E e \in EvalEvents : NextEvent(e)

SpecEval == InitEval /\ [][NextEval]_vars

\* ------------------------------------------------------------------ the ingestion pipeline

\* Row speeds, in thousandths of km/h: below 1, around 1, around and far from
\* the limits of RowLimits, some with a third decimal that rounding drops.
RowSpeeds == {600, 800, 999, 1006, 5000, 40000, 99000, 99996, 100000, 100004, 100006, 100010, 120000}

\* Row speed limits, in thousandths of km/h: below 1, around 1 and around 100.
RowLimits == {500, 994, 996, 1000, 100000, 100004, 100006}

\* The events build_event_from_row produces from rows of any such speed and
\* limit.
RowEvents == {build_event_from_row([df[1] EXCEPT !.speed_kmph = s, !.speed_limit_kmph = l]) : s \in RowSpeeds, l \in RowLimits}

\* A session that holds an event built from a row and no decision yet.
InitRow ==
    /\ heap = << <<>> >>
    /\ chain = create_genesis(0, heap)
    /\ rejected_cases = <<>>
    /\ cipher \in {AESCipherInit(k) : k \in PoliceKeyEnv}
    /\ current_event \in RowEvents
    /\ current_decision = NoneObj
    /\ driver_response = None
    /\ now = 0
    /\ last = [op |-> "init", out |-> None]
    /\ placed = <<>>
    /\ calls = [c \in Callers |-> Idle]

NextRow ==
    \/ CallEvaluate
    \/ \E e \in RowEvents : NextEvent(e)

SpecRow == InitRow /\ [][NextRow]_vars

\* ------------------------------------------------------------------ the cipher called directly

\* The records handed to encrypt: the payload of any row under any response.
CipherRecords == {Payload(build_event_from_row(df[i]), evaluate_decision(build_event_from_row(df[i])), r) : i \in 1..Len(df), r \in Responses}

\* One bit of the encrypted body flipped: the bytes decrypt to another plaintext.
FlipBody(ct) == [ct EXCEPT !.gcm_pt = JsonDumps([corrupt |-> @.json])]

\* One bit of the tag flipped.
FlipTag(ct) == [ct EXCEPT !.gcm_tag = [@ EXCEPT !.key = "flipped"]]

\* The ciphertexts decrypt may be handed for pair: as produced, or with a bit
\* of the body or of the tag flipped.
CiphertextInputs(pair) == {pair.ciphertext, ToHex(FlipBody(FromHex(pair.ciphertext))), ToHex(FlipTag(FromHex(pair.ciphertext)))}

\* The nonces decrypt may be handed for pair: as produced, another nonce, or
\* the nonce with a bit flipped.
NonceInputs(pair) == {pair.nonce} \cup {ToHex(n) : n \in Nonces \cup {"flipped"}}

\* A caller constructs AESCipher() with POLICE_KEY_HEX set to env (or unset).
CallConstruct(env) ==
    /\ cipher' = AESCipherInit(env)
    /\ last' = [op |-> "construct", env |-> env, built |-> "constructed"]
    /\ UNCHANGED <<chain, heap, rejected_cases, current_event, current_decision, driver_response, now, placed, calls>>

\* A caller runs cipher.encrypt(record); os.urandom returns nonce.
CallEncrypt(record, nonce) ==
    /\ last' = [op |-> "encrypt", record |-> record, pair |-> Encrypt(cipher, nonce, record)]
    /\ UNCHANGED <<chain, heap, rejected_cases, cipher, current_event, current_decision, driver_response, now, placed, calls>>

\* A caller holding cipher c runs c.decrypt(nonce_hex, ciphertext_hex) on the
\* pair the last encrypt call returned, possibly altered.
CallDecrypt(c, nonce_hex, ciphertext_hex) ==
    /\ last.op \in {"encrypt", "decrypt"}
    /\ last' = [op |-> "decrypt", record |-> last.record, pair |-> last.pair, key |-> c.key, nonce_hex |-> nonce_hex, ciphertext_hex |-> ciphertext_hex, res |-> Decrypt(c, nonce_hex, ciphertext_hex)]
    /\ UNCHANGED <<chain, heap, rejected_cases, cipher, current_event, current_decision, driver_response, now, placed, calls>>

NextCipher ==
    \/ \E env \in PoliceKeyEnv : CallConstruct(env)
    \/ \E record \in CipherRecords : \E nonce \in Nonces : CallEncrypt(record, nonce)
    \/ /\ last.op \in {"encrypt", "decrypt"}
       /\ \E k \in PoliceKeyEnv : \E n \in NonceInputs(last.pair) : \E ct \in CiphertextInputs(last.pair) : CallDecrypt(AESCipherInit(k), n, ct)

SpecCipher == Init /\ [][NextCipher]_vars

\* ------------------------------------------------------------------ properties

\* The block's attributes other than hash.
StoredFields(b) == [k \in DOMAIN b \ {"hash"} |-> b[k]]

\* Some transaction of sequence txs carries response r.
HasResponse(txs, r) == \E j \in 1..Len(txs) : txs[j].driver_response = r

\* C1: in every reachable state of the session, no block of the chain holds
\* a transaction whose driver_response is REJECTED.
C1_NoRejectedOnChain == \A i \in 1..Len(chain) : ~HasResponse(BlockTxs(chain[i]), "REJECTED")

\* C1 witness: a rejected transaction was saved and a block was mined.
C1_Witness == Len(chain) > 1 /\ Len(rejected_cases) > 0

\* C2: the chain is never empty, its first block is the genesis block with
\* index 0 and prev_hash "0", and every later block's prev_hash is the stored
\* hash of the block before it.
C2_ChainLinked ==
    /\ Len(chain) >= 1
    /\ chain[1].index = 0
    /\ chain[1].prev_hash = Sentinel
    /\ chain[1].data = GenesisData
    /\ \A i \in 2..Len(chain) : chain[i].prev_hash = chain[i - 1].hash

\* C2 witness: two blocks were mined on top of the genesis block.
C2_Witness == Len(chain) >= 3

\* C3: a mine() call on a non-empty pool makes the chain one block longer,
\* leaves the pool empty, and the new block has the next index, the previous
\* last block's hash as prev_hash and the pool's contents, in order, as data.
C3_MineCommitsPool ==
    [][(last'.op = "mine" /\ Pool # <<>>) =>
        /\ Len(chain') = Len(chain) + 1
        /\ heap'[POOL] = <<>>
        /\ chain'[Len(chain')].index = chain[Len(chain)].index + 1
        /\ chain'[Len(chain')].prev_hash = chain[Len(chain)].hash
        /\ "ref" \in DOMAIN chain'[Len(chain')].data
        /\ heap'[chain'[Len(chain')].data.ref] = Pool]_vars

\* C3 witness: a block holding two transactions was mined by the last call.
C3_Witness == last.op = "mine" /\ Len(chain) > 1 /\ Len(BlockTxs(chain[Len(chain)])) = 2 /\ Pool = <<>>

\* C4: a mine() call on an empty pool fails with NoPendingTransactions and
\* leaves the chain as it was.
C4_MineOnEmptyPoolFails == [][(last'.op = "mine" /\ Pool = <<>>) => (chain' = chain /\ last'.out = "NoPendingTransactions")]_vars

\* C5: for every block of the chain, the hash recomputed from the block's
\* stored fields, the hash field left out, is the block's stored hash.
C5_HashesReproduce == \A i \in 1..Len(chain) : compute_hash(StoredFields(chain[i]), heap) = chain[i].hash

\* C5 witness: a block was mined and the pool has been refilled since.
C5_Witness == Len(chain) > 1 /\ BlockTxs(chain[2]) # <<>> /\ Pool # <<>>

\* C6: an add_tx call with a REJECTED transaction fails with
\* InvariantViolation and leaves the pending pool and the chain as they were.
C6_AddTxRefusesRejected == [][(last'.op = "add_tx" /\ last'.arg.driver_response = "REJECTED") => (heap' = heap /\ chain' = chain /\ last'.out = "InvariantViolation")]_vars

\* The save of this step appended exactly one transaction, carrying the
\* step's driver response and the current event's plate, to txs.
AppendedBuiltTx(old, new) ==
    /\ Len(new) = Len(old) + 1
    /\ SubSeq(new, 1, Len(old)) = old
    /\ new[Len(new)].driver_response = driver_response'
    /\ new[Len(new)].vehicle = current_event.vehicle

\* C7: a save under response REJECTED appends the built transaction to the
\* rejected list and leaves pool and chain alone; a save under AUTO_SAFE or
\* CONFIRMED appends it to the pool and leaves rejected list and chain alone.
C7_SaveDispatch ==
    [][(last'.op = "save" /\ driver_response' # None) =>
        /\ chain' = chain
        /\ \A r \in 2..Len(heap) : heap'[r] = heap[r]
        /\ Len(heap') = Len(heap)
        /\ driver_response' = "REJECTED" => (AppendedBuiltTx(rejected_cases, rejected_cases') /\ heap'[POOL] = Pool)
        /\ driver_response' \in {"AUTO_SAFE", "CONFIRMED"} => (AppendedBuiltTx(Pool, heap'[POOL]) /\ rejected_cases' = rejected_cases)]_vars

\* C7 witness: the last run saved, and both stores hold a transaction.
C7_Witness == last.op = "save" /\ Len(rejected_cases) = 1 /\ Len(Pool) = 1

\* C8: the current decision is persisted at most once, so never twice and
\* never in both stores.
C8_DecisionPlacedOnce == Len(placed) <= 1

\* C9: a terminal driver response does not change while its decision is
\* current, that is, in any run other than a load or a decision-engine run.
C9_TerminalResponseFinal == [][(driver_response \in Responses /\ last'.op \notin {"load", "decide"}) => driver_response' = driver_response]_vars

\* The response fits the current decision.
ResponseAgrees ==
    /\ driver_response = "AUTO_SAFE" => (current_decision # NoneObj /\ ~current_decision.overspeed)
    /\ driver_response \in {"CONFIRMED", "REJECTED"} => (current_decision # NoneObj /\ current_decision.overspeed)

\* C10: the driver response always fits the current decision (AUTO_SAFE only
\* without overspeed, CONFIRMED or REJECTED only with it), it becomes
\* CONFIRMED only in the run of a confirm click and REJECTED only in the run
\* of a reject click, and a new event or decision never starts with either.
C10_ResponseFollowsInput ==
    /\ ResponseAgrees
    /\ [][/\ ResponseAgrees'
          /\ (driver_response' = "CONFIRMED" /\ driver_response # "CONFIRMED") => last'.op = "confirm"
          /\ (driver_response' = "REJECTED" /\ driver_response # "REJECTED") => last'.op = "reject"
          /\ last'.op \in {"load", "decide"} => driver_response' \notin {"CONFIRMED", "REJECTED"}]_vars

\* C10 witness: the driver's reject click has just set the response.
C10_Witness == driver_response = "REJECTED" /\ last.op = "reject" /\ current_decision.overspeed

RECURSIVE ChainTxsOf(_, _, _)
\* The transactions of the first k blocks of chain c over heap h, in order.
ChainTxsOf(c, h, k) == IF k = 0 THEN <<>> ELSE ChainTxsOf(c, h, k - 1) \o (IF "ref" \in DOMAIN c[k].data THEN h[c[k].data.ref] ELSE <<>>)

\* Every transaction the ledger holds: those of the blocks, then the pool's.
LedgerTxsOf(c, h) == ChainTxsOf(c, h, Len(c)) \o h[POOL]

\* C11: with calls run one after the other, the transactions held by the
\* ledger (blocks in order, then the pool) stay the same sequence in every
\* step, or grow by the one transaction add_tx was given: none is dropped,
\* none is in two places; and the pool gets shorter only in a step that
\* appends a block holding the pool's former contents and empties the pool.
C11_PoolMovesOnceIntoOneBlock ==
    [][/\ \/ LedgerTxsOf(chain', heap') = LedgerTxsOf(chain, heap)
          \/ (last'.op = "add_tx" /\ LedgerTxsOf(chain', heap') = Append(LedgerTxsOf(chain, heap), last'.arg))
       /\ Len(heap'[POOL]) < Len(Pool) =>
            /\ Len(chain') = Len(chain) + 1
            /\ SubSeq(chain', 1, Len(chain)) = chain
            /\ heap'[POOL] = <<>>
            /\ "ref" \in DOMAIN chain'[Len(chain')].data
            /\ chain'[Len(chain')].data.ref # POOL
            /\ heap'[chain'[Len(chain')].data.ref] = Pool]_vars

\* C11 witness: two blocks were mined, each from a pool of one transaction.
C11_Witness == Len(chain) = 3 /\ Len(BlockTxs(chain[2])) = 1 /\ Len(BlockTxs(chain[3])) = 1 /\ Pool = <<>>

\* The rejected list holds REJECTED transactions only.
OnlyRejected(rej) == \A j \in 1..Len(rej) : rej[j].driver_response = "REJECTED"

\* C12: every entry of the rejected list has driver_response REJECTED, and no
\* step removes, reorders or changes an entry: the list before a step is a
\* prefix of the list after it.
C12_QuarantineAppendOnly ==
    /\ OnlyRejected(rejected_cases)
    /\ [][/\ OnlyRejected(rejected_cases')
          /\ Len(rejected_cases') >= Len(rejected_cases)
          /\ SubSeq(rejected_cases', 1, Len(rejected_cases)) = rejected_cases]_vars

\* C12 witness: two rejected transactions are listed and a later run loaded an event.
C12_Witness == Len(rejected_cases) = 2 /\ last.op = "load"

\* The elements of sequence q.
Range(q) == {q[i] : i \in 1..Len(q)}

\* No two blocks of chain c have the same index or the same prev_hash.
UniqueLinks(c) == \A i, j \in 1..Len(c) : i # j => (c[i].index # c[j].index /\ c[i].prev_hash # c[j].prev_hash)

\* C13: with add_tx and mine calls of several callers interleaved statement
\* by statement, a transaction held by the ledger (in the pool or a block) is
\* still held after every step, and no two blocks share an index or a
\* prev_hash.
C13_InterleavedCommitAtomic ==
    [][/\ Range(LedgerTxsOf(chain, heap)) \subseteq Range(LedgerTxsOf(chain', heap'))
       /\ UniqueLinks(chain')]_vars

\* C14: the decision evaluate_decision returns for an event has route FASTEST
\* below congestion 0.4, ALTERNATE_1 from 0.4 to below 0.8 and ALTERNATE_2
\* from 0.8 on; its toll is the hundredth nearest to 1.0 + 2 * congestion;
\* overspeed is speed > speed_limit (false at the limit); and
\* decision_correct is the negation of overspeed.
C14_EvaluateBands ==
    last.op = "evaluate" =>
        LET e == current_event
            d == current_decision
        IN /\ e.congestion < 400 => d.route = "FASTEST"
           /\ (e.congestion >= 400 /\ e.congestion < 800) => d.route = "ALTERNATE_1"
           /\ e.congestion >= 800 => d.route = "ALTERNATE_2"
           /\ 10 * d.toll - (1000 + 2 * e.congestion) \in -5..5
           /\ d.overspeed = (e.speed > e.speed_limit)
           /\ e.speed = e.speed_limit => ~d.overspeed
           /\ d.decision_correct = ~d.overspeed

\* C14 witness: an event at the speed limit and on the 0.8 boundary was evaluated.
C14_Witness == last.op = "evaluate" /\ current_event.congestion = 800 /\ current_event.speed = current_event.speed_limit /\ current_decision.route = "ALTERNATE_2"

\* Every transaction the session holds: in the blocks, in the pool, in the
\* rejected list.
StoredTxs == LedgerTxsOf(chain, heap) \o rejected_cases

\* What the session cipher's decrypt returns for a stored transaction.
DecryptTx(c, tx) == Decrypt(c, tx.nonce, tx.ciphertext)

Tampered == last.key # cipher.key \/ last.nonce_hex # last.pair.nonce \/ last.ciphertext_hex # last.pair.ciphertext

\* C16: a decrypt call whose nonce or ciphertext differs from what encrypt
\* returned (another nonce, a flipped bit in the nonce, the body or the tag),
\* or that runs under a different key, fails verification and returns no
\* record at all.
C16_TamperFails == (last.op = "decrypt" /\ Tampered) => (~last.res.ok /\ last.res.data = NoneObj)

\* C16 witness: decrypt under the right key and nonce was handed a ciphertext
\* with one tag bit flipped, and failed.
C16_Witness ==
    /\ last.op = "decrypt"
    /\ last.key = cipher.key
    /\ last.nonce_hex = last.pair.nonce
    /\ last.ciphertext_hex = ToHex(FlipTag(FromHex(last.pair.ciphertext)))
    /\ ~last.res.ok

\* C18: constructing the cipher while POLICE_KEY_HEX is unset fails with a
\* configuration error; no cipher with a built-in default key comes to exist.
C18_MissingKeyIsConfigError == [][(last'.op = "construct" /\ last'.env = None) => (last'.built = "ConfigError" /\ cipher'.key # DemoKey)]_vars

\* Every stored transaction carries a terminal response, and those in the
\* pool or a block carry AUTO_SAFE or CONFIRMED.
TerminalStored ==
    /\ \A tx \in Range(StoredTxs) : tx.driver_response \in Responses
    /\ \A tx \in Range(LedgerTxsOf(chain, heap)) : tx.driver_response \in {"AUTO_SAFE", "CONFIRMED"}

\* C19: a save clicked while the driver response is not terminal (no decision
\* yet, or an overspeed decision the driver has not answered) leaves the pool,
\* the chain and the rejected list unchanged; every stored transaction has a
\* response among AUTO_SAFE, CONFIRMED, REJECTED and every transaction in the
\* pool or a block has AUTO_SAFE or CONFIRMED.
C19_SaveNeedsTerminalResponse ==
    /\ TerminalStored
    /\ [][/\ TerminalStored'
          /\ (last'.op = "save" /\ driver_response' \notin Responses) => (last'.out = "Get driver confirmation/rejection first!" /\ UNCHANGED <<chain, heap, rejected_cases>>)]_vars

\* C19 witness: a save was refused while an overspeed decision awaited the
\* driver, with a transaction already stored.
C19_Witness ==
    /\ last.op = "save"
    /\ last.out = "Get driver confirmation/rejection first!"
    /\ driver_response = None
    /\ current_decision # NoneObj
    /\ current_decision.overspeed
    /\ Persisted >= 1

\* The response resp is one the driver response step gives for decision dec.
GivenFor(resp, dec) == IF dec.overspeed THEN resp \in {"CONFIRMED", "REJECTED"} ELSE resp = "AUTO_SAFE"

\* The payload p is an event, the evaluation of that event, and a response
\* given for that evaluation.
SelfConsistent(p) ==
    /\ p.event # NoneObj
    /\ p.decision = evaluate_decision(p.event)
    /\ GivenFor(p.driver_response, p.decision)

\* The session never holds a decision for another event than the current
\* one, nor a response for another decision than the current one.
SessionConsistent ==
    /\ current_decision # NoneObj => (current_event # NoneObj /\ current_decision = evaluate_decision(current_event))
    /\ driver_response # None => (current_decision # NoneObj /\ GivenFor(driver_response, current_decision))

\* Every stored transaction decrypts to a self-consistent payload and shows
\* that payload's response, vehicle and exit point in clear.
StoredConsistent ==
    \A tx \in Range(StoredTxs) :
        LET p == DecryptTx(cipher, tx).data
        IN /\ SelfConsistent(p)
           /\ tx.driver_response = p.driver_response
           /\ tx.vehicle = p.event.vehicle
           /\ tx.exit_point = p.event.exit_point

\* C20: the payload of every stored transaction is self-consistent: its
\* decision is the evaluation of its event and its response was given for
\* that decision. Loading an event clears the decision and the response, and
\* running the decision engine on an event replaces the decision and clears
\* the response (safe driving is approved again at once), so no stale
\* decision or response is saved with a newer event.
C20_PayloadSelfConsistent ==
    /\ SessionConsistent /\ StoredConsistent
    /\ [][/\ SessionConsistent' /\ StoredConsistent'
          /\ last'.op = "load" => (current_decision' = NoneObj /\ driver_response' = None)
          /\ (last'.op = "decide" /\ current_event # NoneObj) =>
                /\ current_decision' = evaluate_decision(current_event)
                /\ driver_response' = IF current_decision'.overspeed THEN None ELSE "AUTO_SAFE"]_vars

\* C20 witness: after a save, transactions of two different vehicles are
\* stored, so an event was loaded after an earlier one had been decided,
\* answered and saved.
C20_Witness ==
    /\ last.op = "save"
    /\ \E t1 \in Range(StoredTxs) : \E t2 \in Range(StoredTxs) : t1.vehicle # t2.vehicle

\* Block i of chain c as a reader sees it: its fields and, through its data
\* reference, its transactions in heap h.
BlockContent(c, h, i) == [block |-> c[i], txs |-> IF "ref" \in DOMAIN c[i].data THEN h[c[i].data.ref] ELSE <<>>]

\* Every block's index is its position in the chain, counted from 0.
PositionallyIndexed(c) == \A i \in 1..Len(c) : c[i].index = i - 1

\* C21: with calls run one after the other, every block's index is its
\* position in the chain (from 0), no add_tx or mine call makes the chain
\* shorter, and every block already in the chain keeps its fields and its
\* transactions through every later call: the block's data is a copy of the
\* pool, so clearing and refilling the pool does not reach it.
C21_ChainAppendOnly ==
    /\ PositionallyIndexed(chain)
    /\ [][/\ PositionallyIndexed(chain')
          /\ Len(chain') >= Len(chain)
          /\ \A i \in 1..Len(chain) : BlockContent(chain', heap', i) = BlockContent(chain, heap, i)]_vars

\* C21 witness: two blocks were mined, the first holding a transaction, and
\* add_tx has refilled the pool since.
C21_Witness ==
    /\ last.op = "add_tx"
    /\ Len(chain) = 3
    /\ BlockTxs(chain[2]) # <<>>
    /\ Pool # <<>>

\* C22: for an event built by build_event_from_row whose speed limit is at
\* least 1, an overspeed decision comes with congestion 1.0, route
\* ALTERNATE_2 and toll 3.0; an overspeed decision with route FASTEST or
\* ALTERNATE_1 does not arise from a row.
C22_OverspeedMeansFullCongestion ==
    (last.op = "evaluate" /\ current_event.speed_limit >= 100 /\ current_decision.overspeed) =>
        /\ current_event.congestion = 1000
        /\ current_decision.route = "ALTERNATE_2"
        /\ current_decision.toll = 300

\* C22 witness: an overspeed decision for an event whose row speed exceeded
\* the row limit in the second decimal, the limit being above 1.
C22_Witness ==
    /\ last.op = "evaluate"
    /\ current_decision.overspeed
    /\ current_event.speed_limit = 10000
    /\ current_event.speed = 10001

============================================================================
